---- MODULE Spec2Model ----
(***************************************************************************)
(* Model of the digest subsystem of image-spec-rs:                         *)
(*   src/src/image_digest/algorithm.rs  (Algorithm, CryptoHash, Algorithms) *)
(*   src/src/image_digest/digest.rs     (Digest)                            *)
(*   src/src/image_digest/sha.rs        (Sha256 / Sha384 / Sha512 drafts)   *)
(*                                                                         *)
(* Strings are sequences of one-character strings, so that find(':'),      *)
(* slicing and the two regular expressions are computed character by       *)
(* character.  A panic (unwrap on None, panic!) is the result value Panic. *)
(***************************************************************************)
EXTENDS Integers, Sequences, FiniteSets, TLC

VARIABLES
    algorithms,   \* Algorithms.algorithms : HashMap<&str, isize>
    registered,   \* history: the register_algorithm calls that returned true, in order
    alg,          \* the Option<Algorithm> last returned by get_algorithm
    dg,           \* the Digest value the caller holds (None before one is built)
    rd,           \* the from_reader / from_file call in progress
    ret           \* the last operation, its arguments and its result

vars == <<algorithms, registered, alg, dg, rd, ret>>

\* ------------------------------------------------------------------ characters

Digits == {"0", "1", "2", "3", "4", "5", "6", "7", "8", "9"}

Lower == {"a", "b", "c", "d", "e", "f", "g", "h", "i", "j", "k", "l", "m",
          "n", "o", "p", "q", "r", "s", "t", "u", "v", "w", "x", "y", "z"}

Upper == {"A", "B", "C", "D", "E", "F", "G", "H", "I", "J", "K", "L", "M",
          "N", "O", "P", "Q", "R", "S", "T", "U", "V", "W", "X", "Y", "Z"}

Colon == ":"

\* n copies of the character c
Rep(c, n) == [i \in 1..n |-> c]

\* ------------------------------------------------------------------ constants

SHA256 == <<"s", "h", "a", "2", "5", "6">>
SHA384 == <<"s", "h", "a", "3", "8", "4">>
SHA512 == <<"s", "h", "a", "5", "1", "2">>
BLAKE3 == <<"b", "l", "a", "k", "e", "3">>

None == [kind |-> "None"]
Panic == [kind |-> "Panic"]

\* Algorithm::new(name, size)
Algorithm(name, size) == [name |-> name, bitsize |-> size]

\* ------------------------------------------------------------------ registry

EmptyMap == [n \in {} |-> 0]

\* A register_algorithm that inserts without looking the name up first.
RegisterOverwrite(m, name, size) ==
    [map |-> [n \in (DOMAIN m) \cup {name} |-> IF n = name THEN size ELSE m[n]],
     ok  |-> TRUE]

\* A register_algorithm that inserts first and reports whether the name was new
\* (HashMap::insert(..).is_none()).
RegisterInsertFirst(m, name, size) ==
    [map |-> [n \in (DOMAIN m) \cup {name} |-> IF n = name THEN size ELSE m[n]],
     ok  |-> name \notin DOMAIN m]

\* Algorithms::register_algorithm on the map m: the map afterwards and the
\* returned bool.
RegisterAlgorithm(m, name, size) ==
    IF name \in DOMAIN m
    THEN [map |-> m, ok |-> FALSE]
    ELSE [map |-> [n \in (DOMAIN m) \cup {name} |-> IF n = name THEN size ELSE m[n]],
          ok  |-> TRUE]

\* An Algorithms::new() that forgets the blake3 registration.
DefaultCallsNoBlake3 ==
    << <<SHA256, 256>>, <<SHA384, 384>>, <<SHA512, 512>> >>

\* The calls Algorithms::new() makes, in order.
DefaultCalls ==
    << <<SHA256, 256>>, <<SHA384, 384>>, <<SHA512, 512>>, <<BLAKE3, 256>> >>

RECURSIVE RegisterAll(_, _)
RegisterAll(m, calls) ==
    IF calls = << >> THEN m
    ELSE RegisterAll(RegisterAlgorithm(m, Head(calls)[1], Head(calls)[2]).map,
                     Tail(calls))

\* Algorithms::new(): the map after the four default registrations.
NewAlgorithms == RegisterAll(EmptyMap, DefaultCalls)

\* Algorithms::get_algorithm on the map m
GetAlgorithm(m, name) ==
    IF name \in DOMAIN m
    THEN [kind |-> "Some", val |-> Algorithm(name, m[name])]
    ELSE None

\* CryptoHash::size for Algorithm
AlgorithmSize(a) == a.bitsize

\* CryptoHash::available for Algorithm
AlgorithmAvailable(a) == TRUE

\* CryptoHash::digester for Algorithm: the hasher the match on self.name
\* selects, or the panic of the wildcard arm (which blake3 falls into).
AlgorithmDigester(a) ==
    CASE a.name = SHA256 -> [kind |-> "Hasher", prim |-> "sha256", msg |-> << >>]
      [] a.name = SHA384 -> [kind |-> "Hasher", prim |-> "sha384", msg |-> << >>]
      [] a.name = SHA512 -> [kind |-> "Hasher", prim |-> "sha512", msg |-> << >>]
      [] OTHER -> Panic

\* CryptoHash::hash for Algorithm: self.digester()
AlgorithmHash(a) == AlgorithmDigester(a)

\* ------------------------------------------------------------------ hashing

\* The match on self.name at the head of encode, from_reader, from_bytes,
\* from_string and from_file: the hasher it selects, or the panic of the
\* wildcard arm.
Dispatch(name) ==
    CASE name = SHA256 -> [kind |-> "Hasher", prim |-> "sha256"]
      [] name = SHA384 -> [kind |-> "Hasher", prim |-> "sha384"]
      [] name = SHA512 -> [kind |-> "Hasher", prim |-> "sha512"]
      [] name = BLAKE3 -> [kind |-> "Hasher", prim |-> "blake3"]
      [] OTHER -> Panic

\* Output length in bytes of the primitives of the sha2 and blake3 crates.
OutLen(prim) ==
    CASE prim = "sha256" -> 32
      [] prim = "sha384" -> 48
      [] prim = "sha512" -> 64
      [] prim = "blake3" -> 32

Salt(prim) ==
    CASE prim = "sha256" -> 11
      [] prim = "sha384" -> 23
      [] prim = "sha512" -> 37
      [] prim = "blake3" -> 41

\* The primitives are external crates.  They are abstracted as a deterministic
\* function of the whole message (every byte and its position count) with the
\* primitive's real output length; the streaming state of a hasher is the
\* message it has been fed.
RECURSIVE Fold(_)
Fold(msg) ==
    IF msg = << >> THEN 7
    ELSE (Fold(SubSeq(msg, 1, Len(msg) - 1)) * 31 + msg[Len(msg)] + 1) % 65521

RawDigest(prim, msg) ==
    [i \in 1..OutLen(prim) |-> (Fold(msg) * i + Salt(prim) + i) % 256]

\* Sha256::new() / Sha384::new() / Sha512::new() / blake3::Hasher::new()
\* (upd: the lengths of the update arguments so far; fin: finalize calls so far)
HasherNew(prim) == [prim |-> prim, msg |-> << >>, upd |-> << >>, fin |-> 0]

\* An update that restarts the accumulator on every call.
UpdateReset(h, chunk) == [h EXCEPT !.msg = chunk]

\* digest.update(chunk)
Update(h, chunk) == [h EXCEPT !.msg = @ \o chunk, !.upd = Append(@, Len(chunk))]

\* digest.finalize()
Finalize(h) == RawDigest(h.prim, h.msg)

\* The hasher once finalize has consumed it
Finalized(h) == [h EXCEPT !.fin = @ + 1]

HexChars ==
    <<"0", "1", "2", "3", "4", "5", "6", "7", "8", "9", "a", "b", "c", "d", "e", "f">>

\* hex::encode: two lowercase hexadecimal characters per byte, high nibble first
HexEncode(bytes) ==
    [i \in 1..(2 * Len(bytes)) |->
        IF i % 2 = 1 THEN HexChars[(bytes[(i + 1) \div 2] \div 16) + 1]
        ELSE HexChars[(bytes[i \div 2] % 16) + 1]]

Str(s) == [kind |-> "Str", val |-> s]

\* CryptoHash::from_bytes for Algorithm
FromBytes(a, bytes) ==
    LET d == Dispatch(a.name) IN
    IF d = Panic THEN Panic
    ELSE Str(HexEncode(Finalize(Update(HasherNew(d.prim), bytes))))

\* CryptoHash::encode for Algorithm: its own match on self.name, then update
\* and finalize over the bytes
Encode(a, bytes) ==
    LET d == Dispatch(a.name) IN
    IF d = Panic THEN Panic
    ELSE Str(HexEncode(Finalize(Update(HasherNew(d.prim), bytes))))

\* The UTF-8 byte of an ASCII character of the texts hashed
CharCode(c) ==
    CASE c = "a" -> 97
      [] c = "b" -> 98

\* str::as_bytes
AsBytes(str) == [i \in 1..Len(str) |-> CharCode(str[i])]

\* CryptoHash::from_string for Algorithm
FromString(a, str) ==
    LET d == Dispatch(a.name) IN
    IF d = Panic THEN Panic
    ELSE Str(HexEncode(Finalize(Update(HasherNew(d.prim), AsBytes(str)))))

\* ------------------------------------------------------------------ digest

\* Digest::new(alg, digest)
DigestNew(a, e) == [name |-> a.name, digest |-> a.name \o <<Colon>> \o e]

\* str::find(':'): the 0-based index of the first ':' or None
Find(s) ==
    IF \E i \in 1..Len(s) : s[i] = Colon
    THEN [kind |-> "Some",
          val  |-> (CHOOSE i \in 1..Len(s) :
                        s[i] = Colon /\ \A j \in 1..(i - 1) : s[j] # Colon) - 1]
    ELSE None

\* Digest::sep_index: find(':').unwrap()
SepIndex(d) == IF Find(d.digest) = None THEN Panic ELSE Find(d.digest)

\* Digest::algorithm: self.digest[..self.sep_index()]
DigestAlgorithm(d) ==
    IF SepIndex(d) = Panic THEN Panic
    ELSE Str(SubSeq(d.digest, 1, SepIndex(d).val))

\* An encoded() that slices from the separator itself.
DigestEncodedWithSep(d) ==
    IF SepIndex(d) = Panic THEN Panic
    ELSE Str(SubSeq(d.digest, SepIndex(d).val + 1, Len(d.digest)))

\* Digest::encoded: self.digest[self.sep_index() + 1..]
DigestEncoded(d) ==
    IF SepIndex(d) = Panic THEN Panic
    ELSE Str(SubSeq(d.digest, SepIndex(d).val + 2, Len(d.digest)))

\* [a-z0-9]+(?:[.+_-][a-z0-9]+)*
AlgSeps == {".", "+", "_", "-"}

MatchAlgPart(p) ==
    /\ Len(p) > 0
    /\ \A i \in 1..Len(p) : p[i] \in Lower \cup Digits \cup AlgSeps
    /\ p[1] \in Lower \cup Digits
    /\ p[Len(p)] \in Lower \cup Digits
    /\ \A i \in 1..(Len(p) - 1) : ~(p[i] \in AlgSeps /\ p[i + 1] \in AlgSeps)

\* [a-zA-Z0-9=_-]+
MatchEncPart(q) ==
    /\ Len(q) > 0
    /\ \A i \in 1..Len(q) : q[i] \in Lower \cup Upper \cup Digits \cup {"=", "_", "-"}

\* ^[a-z0-9]+(?:[.+_-][a-z0-9]+)*:[a-zA-Z0-9=_-]+$
MatchDigestGrammar(s) ==
    \E i \in 1..Len(s) :
        /\ s[i] = Colon
        /\ MatchAlgPart(SubSeq(s, 1, i - 1))
        /\ MatchEncPart(SubSeq(s, i + 1, Len(s)))

Ok == [kind |-> "Ok"]
Err(msg) == [kind |-> "Err", msg |-> msg]

\* The algorithm names Digest::validate accepts
ValidateNames == {SHA256, SHA384, SHA512}

\* Digest::validate
DigestValidate(d) ==
    LET a == DigestAlgorithm(d) IN
    IF a = Panic THEN Panic
    ELSE IF a.val \notin ValidateNames THEN Err("invalid checksum digest algorithm")
    ELSE IF MatchDigestGrammar(d.digest) THEN Ok
    ELSE Err("invalid checksum digest format")

\* ------------------------------------------------------------------ strict validation

\* Rust's integer division truncates toward zero
RustDiv(a, b) == IF a >= 0 THEN a \div b ELSE -((-a) \div b)

HexLower == {"0", "1", "2", "3", "4", "5", "6", "7", "8", "9", "a", "b", "c", "d", "e", "f"}

\* A strict check that takes the size for a byte count.
AlgorithmValidateBytes(a, s) ==
    IF RustDiv(a.bitsize, 8) < 0 THEN Panic
    ELSE [kind |-> "Bool",
          val  |-> Len(s) = RustDiv(a.bitsize, 8) /\ \A i \in 1..Len(s) : s[i] \in HexLower]

\* CryptoHash::validate for Algorithm: Regex::new("^[0-9a-f]{n}$").unwrap()
\* with n = bitsize / 4 (a negative n is no regular expression: unwrap
\* panics), then is_match.
AlgorithmValidate(a, s) ==
    IF RustDiv(a.bitsize, 4) < 0 THEN Panic
    ELSE [kind |-> "Bool",
          val  |-> Len(s) = RustDiv(a.bitsize, 4) /\ \A i \in 1..Len(s) : s[i] \in HexLower]

\* ------------------------------------------------------------------ inputs

MD5 == <<"m", "d", "5">>
AB == <<"a", Colon, "b">>

\* Names handed to register_algorithm and get_algorithm: the four defaults,
\* one further well-formed name and one that holds a ':'.
Names == {SHA256, SHA384, SHA512, BLAKE3, MD5, AB}

\* Sizes handed to register_algorithm
Sizes == {12, -8}

\* Longest byte stream hashed
MaxData == 2

ByteVals == {0, 255}

RECURSIVE SeqsUpTo(_, _)
SeqsUpTo(S, n) ==
    IF n = 0 THEN {<< >>}
    ELSE LET shorter == SeqsUpTo(S, n - 1) IN
         shorter \cup {Append(q, x) : q \in {r \in shorter : Len(r) = n - 1}, x \in S}

Datas == SeqsUpTo(ByteVals, MaxData)

\* Texts handed to from_string
Texts == {<< >>, <<"a">>, <<"b", "a">>}

ABC36 ==
    <<"a", "b", "c", "d", "e", "f", "g", "h", "i", "j", "k", "l", "m",
      "n", "o", "p", "q", "r", "s", "t", "u", "v", "w", "x", "y", "z",
      "0", "1", "2", "3", "4", "5", "6", "7", "8", "9">>

\* Encoded segments handed to Digest::new
Encs == {<< >>, <<"a", "b">>, ABC36, <<"a", Colon, "b">>}

SHA256Upper == <<"S", "H", "A", "2", "5", "6">>
SHA256Mixed == <<"s", "h", "a", "2", "5", "6", "X">>

LitAlgs == {SHA256, BLAKE3, SHA256Upper, SHA256Mixed, MD5, << >>}
LitEncs == {<<"A", "=", "_", "-">>, <<"a", "!">>}

\* Digest strings of struct literals Digest { name, digest }: no ':', one ':',
\* two ':', an empty segment on either side.
LitStrings ==
    LitAlgs
    \cup {a \o e : a \in LitAlgs, e \in LitEncs}
    \cup {a \o <<Colon>> \o e : a \in LitAlgs, e \in LitEncs \cup {<< >>}}
    \cup {a \o <<Colon>> \o <<"a">> \o <<Colon>> \o <<"b">> : a \in {SHA256, SHA256Upper, MD5}}
    \cup {SHA256 \o <<Colon, Colon>> \o <<"a">>, SHA256 \o <<Colon>> \o ABC36}

\* The digest of tests::test_validate beside two that fail
StrictLits ==
    {SHA256 \o <<Colon>> \o ABC36, SHA256 \o ABC36, BLAKE3 \o <<Colon>> \o ABC36}

\* Strings handed to Algorithm::validate
StrictInputs ==
    {Rep("a", n) : n \in {0, 3, 32, 63, 64, 65, 96, 128}}
    \cup {Rep("0", 95) \o <<"f">>, Rep("9", 127) \o <<"f">>}
    \cup {Rep("a", 63) \o <<"g">>, <<"F">> \o Rep("a", 63), Rep("a", 95) \o <<Colon>>,
          Rep("b", 64) \o Rep("G", 64), ABC36}

\* ------------------------------------------------------------------ state machine

Idle == [pc |-> "idle"]

Init ==
    /\ algorithms = NewAlgorithms
    /\ registered = [i \in 1..Len(DefaultCalls) |->
                        [name |-> DefaultCalls[i][1], size |-> DefaultCalls[i][2]]]
    /\ alg = None
    /\ dg = None
    /\ rd = Idle
    /\ ret = [op |-> "new"]

\* algs.register_algorithm(name, size)
Register(name, size) ==
    /\ rd = Idle
    /\ LET r == RegisterAlgorithm(algorithms, name, size) IN
       /\ algorithms' = r.map
       /\ registered' = IF r.ok THEN Append(registered, [name |-> name, size |-> size])
                        ELSE registered
       /\ ret' = [op |-> "register", name |-> name, size |-> size, res |-> r.ok]
    /\ UNCHANGED <<alg, dg, rd>>

\* alg = algs.get_algorithm(name)
Get(name) ==
    /\ rd = Idle
    /\ alg' = GetAlgorithm(algorithms, name)
    /\ ret' = [op |-> "get", name |-> name, res |-> alg']
    /\ UNCHANGED <<algorithms, registered, dg, rd>>

\* alg.size()
Size ==
    /\ rd = Idle
    /\ alg # None
    /\ ret' = [op |-> "size", alg |-> alg.val, res |-> AlgorithmSize(alg.val)]
    /\ UNCHANGED <<algorithms, registered, alg, dg, rd>>

\* alg.clone().available()
DoAvailable ==
    /\ rd = Idle
    /\ alg # None
    /\ ret' = [op |-> "available", alg |-> alg.val, res |-> AlgorithmAvailable(alg.val)]
    /\ UNCHANGED <<algorithms, registered, alg, dg, rd>>

\* alg.digester()
DoDigester ==
    /\ rd = Idle
    /\ alg # None
    /\ ret' = [op |-> "digester", alg |-> alg.val, res |-> AlgorithmDigester(alg.val)]
    /\ UNCHANGED <<algorithms, registered, alg, dg, rd>>

\* alg.clone().hash()
DoHash ==
    /\ rd = Idle
    /\ alg # None
    /\ ret' = [op |-> "hash", alg |-> alg.val, res |-> AlgorithmHash(alg.val)]
    /\ UNCHANGED <<algorithms, registered, alg, dg, rd>>

\* alg.from_bytes(bytes)
DoFromBytes(bytes) ==
    /\ rd = Idle
    /\ alg # None
    /\ ret' = [op |-> "from_bytes", alg |-> alg.val, src |-> bytes,
               res |-> FromBytes(alg.val, bytes)]
    /\ UNCHANGED <<algorithms, registered, alg, dg, rd>>

\* alg.encode(bytes)
DoEncode(bytes) ==
    /\ rd = Idle
    /\ alg # None
    /\ ret' = [op |-> "encode", alg |-> alg.val, src |-> bytes,
               res |-> Encode(alg.val, bytes)]
    /\ UNCHANGED <<algorithms, registered, alg, dg, rd>>

\* alg.from_string(str)
DoFromString(str) ==
    /\ rd = Idle
    /\ alg # None
    /\ ret' = [op |-> "from_string", alg |-> alg.val, str |-> str,
               res |-> FromString(alg.val, str)]
    /\ UNCHANGED <<algorithms, registered, alg, dg, rd>>

\* alg.validate(s)
DoValidate(s) ==
    /\ rd = Idle
    /\ alg # None
    /\ ret' = [op |-> "validate", alg |-> alg.val, s |-> s,
               res |-> AlgorithmValidate(alg.val, s)]
    /\ UNCHANGED <<algorithms, registered, alg, dg, rd>>

\* ------------------------------------------------------------------ streaming

\* let mut buffer = [0; 1024]
BufSize == 1024

Min(a, b) == IF a < b THEN a ELSE b

\* A slice that always starts at the head of the source.
ChunkStale(src, pos, len) == SubSeq(src, 1, len)

\* &buffer[..len] after a read of len bytes at offset pos of the source
Chunk(src, pos, len) == SubSeq(src, pos + 1, pos + len)

\* The value returned after the loop: hex::encode(digest.finalize()), wrapped
\* in Ok by from_file.
Finish(mode, h) ==
    IF mode = "from_file"
    THEN [kind |-> "Ok", val |-> HexEncode(Finalize(h))]
    ELSE Str(HexEncode(Finalize(h)))

\* alg.from_reader(reader): the match on the name and the entry into the loop.
\* src is what the reader delivers before end-of-stream.
FromReaderStart(src) ==
    /\ rd = Idle
    /\ alg # None
    /\ LET d == Dispatch(alg.val.name) IN
       IF d = Panic
       THEN /\ rd' = Idle
            /\ ret' = [op |-> "from_reader", alg |-> alg.val, src |-> src,
                       reads |-> << >>, readerr |-> FALSE, res |-> Panic]
       ELSE /\ rd' = [pc |-> "loop", mode |-> "from_reader", alg |-> alg.val,
                      h |-> HasherNew(d.prim), src |-> src, pos |-> 0, reads |-> << >>]
            /\ ret' = [op |-> "call", fn |-> "from_reader"]
    /\ UNCHANGED <<algorithms, registered, alg, dg>>

\* alg.from_file(path): the match on the name, File::open(path)? and the entry
\* into the loop.  src is the content of the file, opens whether open succeeds.
FromFileStart(src, opens) ==
    /\ rd = Idle
    /\ alg # None
    /\ LET d == Dispatch(alg.val.name) IN
       IF d = Panic
       THEN /\ rd' = Idle
            /\ ret' = [op |-> "from_file", alg |-> alg.val, src |-> src,
                       reads |-> << >>, readerr |-> FALSE, res |-> Panic]
       ELSE IF ~opens
       THEN /\ rd' = Idle
            /\ ret' = [op |-> "from_file", alg |-> alg.val, src |-> src,
                       reads |-> << >>, readerr |-> FALSE, res |-> Err("open")]
       ELSE /\ rd' = [pc |-> "loop", mode |-> "from_file", alg |-> alg.val,
                      h |-> HasherNew(d.prim), src |-> src, pos |-> 0, reads |-> << >>]
            /\ ret' = [op |-> "call", fn |-> "from_file"]
    /\ UNCHANGED <<algorithms, registered, alg, dg>>

\* An iteration that feeds the hasher without moving on in the source.
ReadChunkNoAdvance(len) ==
    /\ rd.pc = "loop"
    /\ len \in 1..Min(BufSize, Len(rd.src) - rd.pos)
    /\ rd' = [rd EXCEPT !.h = Update(rd.h, Chunk(rd.src, rd.pos, len)),
                        !.reads = Append(rd.reads, len)]
    /\ UNCHANGED <<algorithms, registered, alg, dg, ret>>

\* One iteration: read returns Ok(len) with len > 0, then digest.update(&buffer[..len])
ReadChunk(len) ==
    /\ rd.pc = "loop"
    /\ len \in 1..Min(BufSize, Len(rd.src) - rd.pos)
    /\ rd' = [rd EXCEPT !.h = Update(rd.h, Chunk(rd.src, rd.pos, len)),
                        !.pos = rd.pos + len,
                        !.reads = Append(rd.reads, len)]
    /\ UNCHANGED <<algorithms, registered, alg, dg, ret>>

\* read returns Ok(0) at the end of the source: break, finalize, return
ReadEnd ==
    /\ rd.pc = "loop"
    /\ rd.pos = Len(rd.src)
    /\ ret' = [op |-> rd.mode, alg |-> rd.alg, src |-> rd.src, reads |-> rd.reads,
               readerr |-> FALSE, res |-> Finish(rd.mode, rd.h),
               h |-> Finalized(rd.h)]
    /\ rd' = Idle
    /\ UNCHANGED <<algorithms, registered, alg, dg>>

\* read returns Err(_): break, finalize, return
ReadError ==
    /\ rd.pc = "loop"
    /\ ret' = [op |-> rd.mode, alg |-> rd.alg, src |-> rd.src, reads |-> rd.reads,
               readerr |-> TRUE, res |-> Finish(rd.mode, rd.h),
               h |-> Finalized(rd.h)]
    /\ rd' = Idle
    /\ UNCHANGED <<algorithms, registered, alg, dg>>

\* ------------------------------------------------------------------ digest values

\* dg = Digest::new(alg, e)
NewDigest(e) ==
    /\ rd = Idle
    /\ alg # None
    /\ dg' = [kind |-> "Some", val |-> DigestNew(alg.val, e),
              via |-> [how |-> "new", alg |-> alg.val, e |-> e]]
    /\ ret' = [op |-> "Digest::new", alg |-> alg.val, e |-> e]
    /\ UNCHANGED <<algorithms, registered, alg, rd>>

\* dg = Digest { name: "sha256", digest: s }  (the fields are public)
LitDigest(s) ==
    /\ rd = Idle
    /\ dg' = [kind |-> "Some", val |-> [name |-> SHA256, digest |-> s],
              via |-> [how |-> "literal"]]
    /\ ret' = [op |-> "Digest{}"]
    /\ UNCHANGED <<algorithms, registered, alg, rd>>

\* dg.algorithm()
DoAlgorithm ==
    /\ rd = Idle
    /\ dg # None
    /\ ret' = [op |-> "algorithm", self |-> dg, res |-> DigestAlgorithm(dg.val)]
    /\ UNCHANGED <<algorithms, registered, alg, dg, rd>>

\* dg.clone().encoded()
DoEncoded ==
    /\ rd = Idle
    /\ dg # None
    /\ ret' = [op |-> "encoded", self |-> dg, res |-> DigestEncoded(dg.val)]
    /\ UNCHANGED <<algorithms, registered, alg, dg, rd>>

\* dg.validate()
DoDigestValidate ==
    /\ rd = Idle
    /\ dg # None
    /\ ret' = [op |-> "digest_validate", self |-> dg, res |-> DigestValidate(dg.val)]
    /\ UNCHANGED <<algorithms, registered, alg, dg, rd>>

\* ------------------------------------------------------------------ specifications

DoRegister == \E name \in Names, size \in Sizes : Register(name, size)
DoGet == \E name \in Names : Get(name)

\* The registry and the algorithm values it hands out
Next ==
    \/ DoRegister
    \/ DoGet
    \/ Size
    \/ DoAvailable
    \/ DoDigester
    \/ DoHash

Spec == Init /\ [][Next]_vars

\* Digest computation over byte slices, readers and files; one name beside
\* the defaults is enough here, the match on the name tells no others apart
NextCompute ==
    \/ \E size \in Sizes : Register(MD5, size)
    \/ \E name \in Names \ {AB} : Get(name)
    \/ \E b \in Datas : DoFromBytes(b)
    \/ \E b \in Datas : DoEncode(b)
    \/ \E t \in Texts : DoFromString(t)
    \/ \E b \in Datas : FromReaderStart(b)
    \/ \E b \in Datas, o \in BOOLEAN : FromFileStart(b, o)
    \/ \E len \in 1..Min(BufSize, MaxData) : ReadChunk(len)
    \/ ReadEnd
    \/ ReadError

SpecCompute == Init /\ [][NextCompute]_vars

\* Digest values: construction, decomposition, structural validation
NextDigest ==
    \/ DoRegister
    \/ DoGet
    \/ \E e \in Encs : NewDigest(e)
    \/ \E s \in LitStrings : LitDigest(s)
    \/ DoAlgorithm
    \/ DoEncoded
    \/ DoDigestValidate

SpecDigest == Init /\ [][NextDigest]_vars

\* Strict per-algorithm validation beside the structural one
NextStrict ==
    \/ DoRegister
    \/ DoGet
    \/ \E s \in StrictInputs : DoValidate(s)
    \/ \E s \in StrictLits : LitDigest(s)
    \/ DoDigestValidate

SpecStrict == Init /\ [][NextStrict]_vars

\* The data flow on the default registry: look an algorithm up, digest bytes,
\* wrap the encoded string into a Digest, validate it
NextPipeline ==
    \/ DoGet
    \/ \E b \in Datas : DoFromBytes(b)
    \/ (ret.op = "from_bytes" /\ ret.res.kind = "Str" /\ NewDigest(ret.res.val))
    \/ \E s \in LitStrings : LitDigest(s)
    \/ DoDigestValidate

SpecPipeline == Init /\ [][NextPipeline]_vars

\* One turn of the read loop, whatever the read returns
ReadStep ==
    \/ \E len \in 1..Min(BufSize, MaxData) : ReadChunk(len)
    \/ ReadEnd
    \/ ReadError

\* The streaming calls on the default registry
NextStream ==
    \/ DoGet
    \/ \E b \in Datas : FromReaderStart(b)
    \/ \E b \in Datas, o \in BOOLEAN : FromFileStart(b, o)
    \/ \E len \in 1..Min(BufSize, MaxData) : ReadChunk(len)
    \/ ReadEnd
    \/ ReadError

\* The call is synchronous and every read of the source returns (bytes,
\* end-of-stream or an error): a loop that can take a turn takes it.
SpecStream == Init /\ [][NextStream]_vars /\ WF_vars(ReadStep)

\* ------------------------------------------------------------------ properties

DefaultNames == {SHA256, SHA384, SHA512, BLAKE3}

Some(a) == [kind |-> "Some", val |-> a]

NoColon(s) == \A i \in 1..Len(s) : s[i] # Colon

Colons(s) == Cardinality({i \in 1..Len(s) : s[i] = Colon})

\* C1: register_algorithm(name, size) on a registry that holds name returns
\* false and leaves the whole map unchanged, also when size differs from the
\* stored one; on a registry without name it returns true and the map
\* afterwards is the old map plus exactly name -> size.
C1_RegisterFrame ==
    [][ret'.op = "register" =>
        IF ret'.name \in DOMAIN algorithms
        THEN /\ ret'.res = FALSE
             /\ algorithms' = algorithms
        ELSE /\ ret'.res = TRUE
             /\ DOMAIN algorithms' = (DOMAIN algorithms) \cup {ret'.name}
             /\ algorithms'[ret'.name] = ret'.size
             /\ \A n \in DOMAIN algorithms : algorithms'[n] = algorithms[n]]_vars

\* A name registered after construction is registered again with another size
\* and the call is refused.
C1_Witness ==
    /\ ret.op = "register"
    /\ ret.res = FALSE
    /\ ret.name = MD5
    /\ algorithms[MD5] # ret.size

\* C8: immediately after Algorithms::new(), get_algorithm returns an algorithm
\* for exactly sha256, sha384, sha512 and blake3, of 256, 384, 512 and 256
\* bits, and None for every other name.
C8_DefaultConstruction ==
    /\ ret.op = "new" =>
          /\ DOMAIN algorithms = DefaultNames
          /\ algorithms[SHA256] = 256 /\ algorithms[SHA384] = 384
          /\ algorithms[SHA512] = 512 /\ algorithms[BLAKE3] = 256
    /\ (ret.op = "get" /\ Len(registered) = 4) =>
          ret.res = CASE ret.name = SHA256 -> Some(Algorithm(SHA256, 256))
                      [] ret.name = SHA384 -> Some(Algorithm(SHA384, 384))
                      [] ret.name = SHA512 -> Some(Algorithm(SHA512, 512))
                      [] ret.name = BLAKE3 -> Some(Algorithm(BLAKE3, 256))
                      [] OTHER -> None

\* blake3 is looked up on the registry as constructed and found.
C8_Witness ==
    /\ ret.op = "get"
    /\ Len(registered) = 4
    /\ ret.name = BLAKE3
    /\ ret.res.kind = "Some"

\* The first call for name that returned true, if there is one
FirstRegistered(name) ==
    registered[CHOOSE i \in 1..Len(registered) :
                  /\ registered[i].name = name
                  /\ \A j \in 1..(i - 1) : registered[j].name # name]

\* C9: after any sequence of registrations, get_algorithm(n) returns
\* Some(algorithm named n of size s) exactly when an earlier
\* register_algorithm(n, _) returned true, s being the size of the first such
\* call; for every other name it returns None (a value, not a panic).
C9_Lookup ==
    ret.op = "get" =>
        IF \E i \in 1..Len(registered) : registered[i].name = ret.name
        THEN ret.res = Some(Algorithm(ret.name, FirstRegistered(ret.name).size))
        ELSE ret.res = None

\* A name registered after construction is looked up and found, while another
\* name is still unknown.
C9_Witness ==
    /\ ret.op = "get"
    /\ ret.name = AB
    /\ ret.res.kind = "Some"
    /\ MD5 \notin DOMAIN algorithms

\* C10: size() returns the digest length in bytes: 32 for sha256, 48 for
\* sha384, 64 for sha512, 32 for blake3.
C10_SizeInBytes ==
    (ret.op = "size" /\ ret.alg.name \in DefaultNames) =>
        ret.res = CASE ret.alg.name = SHA256 -> 32
                    [] ret.alg.name = SHA384 -> 48
                    [] ret.alg.name = SHA512 -> 64
                    [] ret.alg.name = BLAKE3 -> 32

\* C2: a from_reader or from_file call in which a read failed returns an I/O
\* error, never an encoded digest of the bytes read before the failure.
C2_ReadErrorSurfaces ==
    (ret.op \in {"from_reader", "from_file"} /\ ret.readerr) => ret.res.kind = "Err"

\* C3: for sha256, sha384, sha512 and blake3, whatever the lengths of the
\* successive reads, a from_reader call that reads to end-of-stream returns the
\* encoded digest from_bytes returns for the bytes delivered; the empty stream
\* gives the digest of the empty input.
C3_ChunkingIndependence ==
    (ret.op = "from_reader" /\ ~ret.readerr /\ ret.alg.name \in DefaultNames) =>
        /\ ret.res.kind = "Str"
        /\ ret.res = FromBytes(ret.alg, ret.src)

\* A stream of two different bytes is delivered in two reads.
C3_Witness ==
    /\ ret.op = "from_reader"
    /\ ~ret.readerr
    /\ ret.alg.name = BLAKE3
    /\ Len(ret.reads) = 2
    /\ ret.src[1] # ret.src[2]

\* C4: algorithm() and encoded() on a digest string without ':' return an
\* explicit MalformedDigest failure instead of panicking.
C4_NoPanic ==
    (ret.op \in {"algorithm", "encoded"} /\ NoColon(ret.self.val.digest)) =>
        ret.res.kind = "Err"

\* The round trip of Digest::new(a, e) through algorithm() and encoded()
RoundTrip ==
    /\ ret.op = "encoded" => ret.res = Str(ret.self.via.e)
    /\ ret.op = "algorithm" =>
          /\ ret.res = Str(ret.self.via.alg.name)
          /\ ret.self.val.name = ret.self.via.alg.name

\* C5 as stated: for every algorithm obtained from the registry and every
\* non-empty e without ':', Digest::new(alg, e).encoded() = e and
\* .algorithm() = alg.name = the stored name.
C5_RoundTripAny ==
    (/\ ret.op \in {"encoded", "algorithm"}
     /\ ret.self.via.how = "new"
     /\ ret.self.via.e # << >>
     /\ NoColon(ret.self.via.e)) => RoundTrip

\* C5 amended: the same for every algorithm obtained from the registry whose
\* name holds no ':'.
C5_RoundTrip ==
    (/\ ret.op \in {"encoded", "algorithm"}
     /\ ret.self.via.how = "new"
     /\ NoColon(ret.self.via.alg.name)
     /\ ret.self.via.e # << >>
     /\ NoColon(ret.self.via.e)) => RoundTrip

\* encoded() is called on a digest built from a registered non-default
\* algorithm and the 36-character segment.
C5_Witness ==
    /\ ret.op = "encoded"
    /\ ret.self.via.how = "new"
    /\ ret.self.via.alg.name = MD5
    /\ ret.self.via.e = ABC36
    /\ ret.res = Str(ABC36)

\* The part of the digest string before its first ':' (all of it without one)
AlgSegment(s) ==
    IF NoColon(s) THEN s
    ELSE SubSeq(s, 1, (CHOOSE i \in 1..Len(s) :
                          s[i] = Colon /\ \A j \in 1..(i - 1) : s[j] # Colon) - 1)

\* C6: Digest::validate returns an Err value for every digest string with no
\* ':', with more than one ':', or with an uppercase letter in its algorithm
\* segment.
C6_GrammarRejection ==
    (/\ ret.op = "digest_validate"
     /\ \/ Colons(ret.self.val.digest) # 1
        \/ \E i \in 1..Len(AlgSegment(ret.self.val.digest)) :
               AlgSegment(ret.self.val.digest)[i] \in Upper) => ret.res.kind = "Err"

\* The number of characters the strict check of a default algorithm expects
HexLen(name) ==
    CASE name = SHA256 -> 64
      [] name = SHA384 -> 96
      [] name = SHA512 -> 128
      [] name = BLAKE3 -> 64

IsLowerHex(s) == \A i \in 1..Len(s) : s[i] \in (Digits \cup {"a", "b", "c", "d", "e", "f"})

\* C7: Algorithm::validate(s) is true exactly when s is bitsize/4 characters
\* of [0-9a-f] (64 for sha256 and blake3, 96 for sha384, 128 for sha512) and
\* false otherwise; the 36-character segment of tests::test_validate passes
\* Digest::validate under sha256 and fails the strict sha256 check.
C7_StrictValidation ==
    /\ (ret.op = "validate" /\ ret.alg.name \in DefaultNames) =>
          ret.res = [kind |-> "Bool",
                     val  |-> Len(ret.s) = HexLen(ret.alg.name) /\ IsLowerHex(ret.s)]
    /\ (ret.op = "validate" /\ ret.alg.bitsize >= 0) =>
          ret.res = [kind |-> "Bool",
                     val  |-> /\ 4 * Len(ret.s) <= ret.alg.bitsize
                              /\ ret.alg.bitsize < 4 * Len(ret.s) + 4
                              /\ IsLowerHex(ret.s)]
    /\ (ret.op = "validate" /\ ret.alg.name = SHA256 /\ ret.s = ABC36) =>
          ret.res.val = FALSE
    /\ (ret.op = "digest_validate"
        /\ ret.self.val.digest = SHA256 \o <<Colon>> \o ABC36) => ret.res = Ok

\* The strict sha512 check accepts a string of 128 hexadecimal characters.
C7_Witness ==
    /\ ret.op = "validate"
    /\ ret.alg.name = SHA512
    /\ Len(ret.s) = 128
    /\ ret.res = [kind |-> "Bool", val |-> TRUE]

\* C11: every algorithm looked up on the default registry (sha256, sha384,
\* sha512, blake3) reports available() = true, and digester() and hash()
\* return a fresh hasher for it: checking available() first rules out a panic.
C11_AvailableImpliesHasher ==
    /\ (ret.op = "available" /\ ret.alg.name \in DefaultNames) => ret.res = TRUE
    /\ (ret.op \in {"digester", "hash"} /\ ret.alg.name \in DefaultNames
        /\ AlgorithmAvailable(ret.alg)) =>
          /\ ret.res.kind = "Hasher"
          /\ ret.res.msg = << >>

\* C12: for every algorithm obtained by get_algorithm from a registry reached
\* from Algorithms::new() by register_algorithm calls, encode, from_bytes,
\* from_string and from_reader return an encoded string and from_file returns
\* Ok or Err: none of them panics over the algorithm's name.
C12_NoPanicOnName ==
    /\ ret.op \in {"encode", "from_bytes", "from_string", "from_reader"} =>
          ret.res.kind = "Str"
    /\ ret.op = "from_file" => ret.res.kind \in {"Ok", "Err"}

\* C13: for a digest string of the canonical grammar, Digest::validate is Ok
\* exactly when its algorithm segment is a name of the default registry; so
\* Digest::new(a, a.from_bytes(b)).validate() is Ok for every default
\* algorithm a and all bytes b, and every unregistered name is rejected.
C13_RegistryConsistency ==
    /\ (ret.op = "digest_validate" /\ MatchDigestGrammar(ret.self.val.digest)) =>
          (ret.res = Ok <=> AlgSegment(ret.self.val.digest) \in DOMAIN NewAlgorithms)
    /\ (ret.op = "digest_validate"
        /\ ret.self.via.how = "new"
        /\ ret.self.via.alg.name \in DOMAIN NewAlgorithms
        /\ \E b \in Datas : FromBytes(ret.self.via.alg, b) = Str(ret.self.via.e)) =>
          ret.res = Ok

RECURSIVE Sum(_)
Sum(q) == IF q = << >> THEN 0 ELSE Head(q) + Sum(Tail(q))

\* C14: every from_reader / from_file computation works on a hasher created
\* for that call, passes each chunk to update in the order read (at finalize
\* the update arguments concatenate to the bytes the source delivered, in
\* source order), and finalizes exactly once, after the last update.
C14_HasherProtocol ==
    /\ rd.pc = "loop" =>
          /\ rd.h.fin = 0
          /\ rd.h.upd = rd.reads
          /\ rd.pos = Sum(rd.reads)
          /\ rd.h.msg = SubSeq(rd.src, 1, rd.pos)
    /\ (ret.op \in {"from_reader", "from_file"} /\ ret.res.kind \in {"Str", "Ok"}) =>
          /\ rd = Idle
          /\ ret.h.fin = 1
          /\ ret.h.upd = ret.reads
          /\ ret.h.msg = SubSeq(ret.src, 1, Sum(ret.reads))
          /\ ~ret.readerr => ret.h.msg = ret.src
          /\ ret.res.val = HexEncode(RawDigest(ret.h.prim, ret.h.msg))

\* A file of two different bytes is read in two chunks and its hasher finalized.
C14_Witness ==
    /\ ret.op = "from_file"
    /\ ret.res.kind = "Ok"
    /\ ~ret.readerr
    /\ Len(ret.reads) = 2
    /\ ret.src[1] # ret.src[2]
    /\ ret.h.fin = 1

\* C15: in every registry reached from Algorithms::new() by register_algorithm
\* calls, every algorithm get_algorithm returns has a bit size that is a
\* positive multiple of 8, so bitsize/4 is a positive even length and
\* Algorithm::validate always builds its pattern.
C15_SizeInvariant ==
    /\ \A n \in DOMAIN algorithms : algorithms[n] > 0 /\ algorithms[n] % 8 = 0
    /\ (ret.op = "get" /\ ret.res.kind = "Some") =>
          /\ ret.res.val.bitsize > 0
          /\ ret.res.val.bitsize % 8 = 0
    /\ ret.op = "validate" => ret.res.kind = "Bool"

\* C16: over a source that delivers finitely many bytes and then end-of-stream
\* or a read error, from_reader / from_file leaves its read loop and returns;
\* every turn of the loop that does not leave it consumes at least one byte,
\* and the loop is left on the first read of length 0 or the first error, with
\* no further read.
C16_LoopTerminates ==
    /\ (rd.pc = "loop") ~> (rd.pc = "idle")
    /\ [][rd.pc = "loop" =>
            \/ /\ rd'.pc = "loop"
               /\ rd'.pos > rd.pos
               /\ rd'.pos <= Len(rd.src)
               /\ rd'.src = rd.src
            \/ /\ rd' = Idle
               /\ ret'.op = rd.mode
               /\ ret'.reads = rd.reads
               /\ ret'.readerr \/ rd.pos = Len(rd.src)]_vars

\* A read fails after one chunk of a two-byte source and the call returns.
C16_Witness ==
    /\ rd = Idle
    /\ ret.op = "from_reader"
    /\ ret.readerr
    /\ Len(ret.src) = 2
    /\ Len(ret.reads) = 1

====
